---- MODULE Spec2Model ----
(***************************************************************************)
(* constexpr-everything (src/main.cpp): a clang tool that walks a parsed   *)
(* translation unit twice.  ConstexprFunctionASTVisitor marks every        *)
(* function that passes the constexpr rules and reports "function can be   *)
(* constexpr"; ConstexprVarDeclFunctionASTVisitor then reports "variable   *)
(* can be constexpr" for local variables of the functions that are still   *)
(* not constexpr.                                                          *)
(*                                                                         *)
(* The translation unit is the input: a sequence of FunctionDecls in       *)
(* pre-order, each with the answers the clang libraries give for it        *)
(* (isWrittenInMainFile, isMain, Sema::CheckConstexprFunctionDecl,         *)
(* RequireLiteralType, checkInitIsICE, ...).  The state the tool changes   *)
(* is the constexpr bit of each FunctionDecl, the DiagnosticsEngine's      *)
(* suppress-all flag and the diagnostics the engine has accepted.          *)
(***************************************************************************)
EXTENDS Naturals, Sequences, FiniteSets, TLC

VARIABLES
    tu,           \* the translation unit: Seq of FunctionDecl records (read only)
    isConstexpr,  \* FunctionDecl::isConstexpr() of every function
    diags,        \* diagnostics the DiagnosticsEngine accepted, in order
    suppressed,   \* DiagnosticsEngine::getSuppressAllDiagnostics()
    log,          \* history of the calls made on the engine and the AST
    plan,         \* the traversals to run, in order
    pc,           \* index in plan of the running traversal
    cursor,       \* next FunctionDecl the running traversal visits
    DS,           \* CheckConstexprDeclStmt: the DeclStmt argument
    Cxx1yLoc,     \* CheckConstexprDeclStmt: the SourceLocation& argument
    ret           \* CheckConstexprDeclStmt: << >> before the call, then << its result >>

vars == <<tu, isConstexpr, diags, suppressed, log, plan, pc, cursor, DS, Cxx1yLoc, ret>>

(***************************************************************************)
(* Bounds.                                                                 *)
(***************************************************************************)
NumFuncs == 2      \* FunctionDecls in a translation unit
MaxDecls == 2      \* declarations in one DeclStmt

(***************************************************************************)
(* Declarations that can stand in a DeclStmt.  A record carries the kind   *)
(* and the answers of the VarDecl / TypedefNameDecl / TagDecl queries the  *)
(* source makes.                                                           *)
(***************************************************************************)
NoAttrs ==
    [isDef |-> FALSE, variablyModified |-> FALSE, isStaticLocal |-> FALSE,
     typeDependent |-> FALSE, literal |-> FALSE, hasInit |-> FALSE,
     forRange |-> FALSE, constexpr |-> FALSE, initICE |-> FALSE,
     valueDependent |-> FALSE, evaluates |-> FALSE, knownICE |-> FALSE]

OfKind(k) == [kind |-> k] @@ NoAttrs

\* a local variable definition of literal type whose initializer is a constant
VarOK ==
    [OfKind("Var") EXCEPT !.isDef = TRUE, !.literal = TRUE, !.hasInit = TRUE,
                          !.initICE = TRUE, !.evaluates = TRUE, !.knownICE = TRUE]

VarDecls ==
    { VarOK,
      [VarOK EXCEPT !.kind = "Decomposition"],
      [VarOK EXCEPT !.isStaticLocal = TRUE],                       \* static const int n = 5;
      [VarOK EXCEPT !.constexpr = TRUE],                           \* constexpr int n = 5;
      [VarOK EXCEPT !.valueDependent = TRUE],                      \* const int n = N;  (template<int N>)
      [VarOK EXCEPT !.valueDependent = TRUE, !.typeDependent = TRUE, !.literal = FALSE],
      \* checkInitIsICE is called before isValueDependent is tested, on an
      \* initializer the library does not expect: either answer can come back
      [VarOK EXCEPT !.valueDependent = TRUE, !.initICE = FALSE, !.evaluates = FALSE,
                    !.knownICE = FALSE],
      [VarOK EXCEPT !.initICE = FALSE, !.evaluates = FALSE, !.knownICE = FALSE],  \* int n = rand();
      [VarOK EXCEPT !.evaluates = FALSE],
      [VarOK EXCEPT !.knownICE = FALSE],
      [VarOK EXCEPT !.literal = FALSE, !.initICE = FALSE, !.evaluates = FALSE, !.knownICE = FALSE],
      [OfKind("Var") EXCEPT !.isDef = TRUE, !.literal = TRUE],     \* int n;
      [OfKind("Var") EXCEPT !.isDef = TRUE, !.typeDependent = TRUE], \* T n;
      [OfKind("Var") EXCEPT !.isDef = TRUE, !.literal = TRUE, !.forRange = TRUE],
      [OfKind("Var") EXCEPT !.literal = TRUE] }                   \* extern int n;

OtherDecls ==
    { OfKind("StaticAssert"), OfKind("UsingDirective"), OfKind("Typedef"),
      [OfKind("TypeAlias") EXCEPT !.variablyModified = TRUE],
      [OfKind("Enum") EXCEPT !.isDef = TRUE], OfKind("CXXRecord"),
      OfKind("EnumConstant"), OfKind("NamespaceAlias"), OfKind("Function"),
      OfKind("Label") }

DeclPool == VarDecls \cup OtherDecls

\* every DeclStmt of 1..MaxDecls declarations from the pool
DeclStmts == UNION { [1..n -> DeclPool] : n \in 1..MaxDecls }

\* the DeclStmt holding the local class a nested function is a member of
LocalClassStmt == << [OfKind("CXXRecord") EXCEPT !.isDef = TRUE] >>

(***************************************************************************)
(* Source locations: <<f, s>> is the begin of statement s of function f,   *)
(* <<f, 0>> the begin of function f, <<0, 0>> the invalid location.        *)
(***************************************************************************)
InvalidLoc == <<0, 0>>
FuncLoc(f) == <<f, 0>>
StmtLoc(f, s) == <<f, s>>

(***************************************************************************)
(* The DiagnosticsEngine and the AST, as the record the visitors thread    *)
(* through their calls.                                                    *)
(***************************************************************************)
Diagnostic(loc, sev, msg, fix) ==
    [loc |-> loc, severity |-> sev, msg |-> msg, fixit |-> fix]

NoFixIt == << >>
CreateInsertion(loc, text) == << [at |-> loc, text |-> text] >>

Event(op, loc, on, msg) == [op |-> op, loc |-> loc, on |-> on, msg |-> msg]

\* DiagnosticsEngine::setSuppressAllDiagnostics
setSuppressAllDiagnostics(st, b) ==
    [st EXCEPT !.suppressed = b,
               !.log = Append(@, Event("suppress", InvalidLoc, b, ""))]

\* DiagnosticsEngine::Report: a diagnostic reported while all diagnostics
\* are suppressed is dropped
Report(st, d) ==
    IF st.suppressed
    THEN [st EXCEPT !.log = Append(@, Event("drop", d.loc, TRUE, d.msg))]
    ELSE [st EXCEPT !.diags = Append(@, d),
                    !.log = Append(@, Event("report", d.loc, FALSE, d.msg))]

RECURSIVE ReportAll(_, _, _)
ReportAll(st, loc, ids) ==
    IF ids = << >> THEN st
    ELSE ReportAll(Report(st, Diagnostic(loc, "Sema", Head(ids), NoFixIt)), loc, Tail(ids))

\* FunctionDecl::setConstexpr
setConstexpr(st, f, b) ==
    [st EXCEPT !.isConstexpr[f] = b,
               !.log = Append(@, Event("setConstexpr", FuncLoc(f), b, ""))]

(***************************************************************************)
(* CheckConstexprDeclStmt (src/main.cpp 23-127).                           *)
(***************************************************************************)
Continue(diag, ext) == [fail |-> FALSE, diag |-> diag, ext |-> ext]
HardFailure(diag) == [fail |-> TRUE, diag |-> diag, ext |-> FALSE]

\* case Decl::Var / Decl::Decomposition without the static-local test
VarCaseNoStaticTest(d) ==
    IF d.isDef /\ ~d.typeDependent /\ ~d.literal
    THEN HardFailure("err_constexpr_local_var_non_literal_type")
    ELSE IF d.isDef /\ ~d.typeDependent /\ ~d.hasInit /\ ~d.forRange
    THEN HardFailure("err_constexpr_local_var_no_init")
    ELSE Continue("ext_constexpr_local_var", FALSE)

\* case Decl::Var / Decl::Decomposition
VarCase(d) ==
    IF d.isDef /\ d.isStaticLocal
    THEN HardFailure("err_constexpr_local_var_static")
    ELSE IF d.isDef /\ ~d.typeDependent /\ ~d.literal
    THEN HardFailure("err_constexpr_local_var_non_literal_type")
    ELSE IF d.isDef /\ ~d.typeDependent /\ ~d.hasInit /\ ~d.forRange
    THEN HardFailure("err_constexpr_local_var_no_init")
    ELSE Continue("ext_constexpr_local_var", FALSE)

\* the switch on DclIt->getKind(): what one declaration does to the loop
DeclCase(d) ==
    CASE d.kind \in {"StaticAssert", "Using", "UsingShadow", "UsingDirective",
                     "UnresolvedUsingTypename", "UnresolvedUsingValue"} ->
            Continue("none", FALSE)
      [] d.kind \in {"Typedef", "TypeAlias"} ->
            IF d.variablyModified THEN HardFailure("err_constexpr_vla")
            ELSE Continue("none", FALSE)
      [] d.kind \in {"Enum", "CXXRecord"} ->
            Continue(IF d.isDef THEN "ext_constexpr_type_definition" ELSE "none", FALSE)
      [] d.kind \in {"EnumConstant", "IndirectField", "ParmVar"} ->
            Continue("none", FALSE)
      [] d.kind \in {"Var", "Decomposition"} -> VarCase(d)
      [] d.kind \in {"NamespaceAlias", "Function"} -> Continue("none", TRUE)
      [] OTHER -> HardFailure("err_constexpr_body_invalid_stmt")

RECURSIVE DeclLoop(_, _, _, _, _)
\* the loop that goes on after a hard failure and returns the last verdict
DeclLoopNoReturn(decls, i, DSLoc, loc, emitted) ==
    IF i > Len(decls)
    THEN [ok |-> TRUE, Cxx1yLoc |-> loc, examined |-> i - 1, emitted |-> emitted]
    ELSE LET v == DeclCase(decls[i])
             em == IF v.diag = "none" THEN emitted ELSE Append(emitted, v.diag)
             l2 == IF v.ext /\ loc = InvalidLoc THEN DSLoc ELSE loc
             rest == DeclLoop(decls, i + 1, DSLoc, l2, em)
         IN  IF v.fail /\ i = Len(decls)
             THEN [ok |-> FALSE, Cxx1yLoc |-> l2, examined |-> i, emitted |-> em]
             ELSE rest

\* for (const auto *DclIt : DS->decls()), from declaration i on
DeclLoop(decls, i, DSLoc, loc, emitted) ==
    IF i > Len(decls)
    THEN [ok |-> TRUE, Cxx1yLoc |-> loc, examined |-> i - 1, emitted |-> emitted]
    ELSE LET v == DeclCase(decls[i])
             em == IF v.diag = "none" THEN emitted ELSE Append(emitted, v.diag)
             l2 == IF v.ext /\ loc = InvalidLoc THEN DSLoc ELSE loc
         IN  IF v.fail
             THEN [ok |-> FALSE, Cxx1yLoc |-> l2, examined |-> i, emitted |-> em]
             ELSE DeclLoop(decls, i + 1, DSLoc, l2, em)

CheckConstexprDeclStmt(decls, DSLoc, loc) == DeclLoop(decls, 1, DSLoc, loc, << >>)

(***************************************************************************)
(* CheckConstexprParameterTypes (src/main.cpp 132-149).  A parameter type  *)
(* is "literal", "nonliteral" or "dependent"; RequireLiteralType reports   *)
(* and returns true for a type that is not literal.                        *)
(***************************************************************************)
RECURSIVE ParamLoop(_, _)
ParamLoop(params, i) ==
    IF i > Len(params) THEN [ok |-> TRUE, emitted |-> << >>]
    ELSE IF params[i] # "dependent" /\ params[i] # "literal"
    THEN [ok |-> FALSE, emitted |-> << "err_constexpr_non_literal_param" >>]
    ELSE ParamLoop(params, i + 1)

\* a check that accepts every parameter list
CheckConstexprParameterTypesAlways(f) == [ok |-> TRUE, emitted |-> << >>]

CheckConstexprParameterTypes(f) == ParamLoop(tu[f].params, 1)

(***************************************************************************)
(* The Sema checks the function visitor calls.                             *)
(***************************************************************************)
\* Sema::CheckConstexprFunctionDecl: the library's answer for the function
CheckConstexprFunctionDecl(f) ==
    IF tu[f].declOK THEN [ok |-> TRUE, emitted |-> << >>]
    ELSE [ok |-> FALSE, emitted |-> << "err_constexpr_function_decl" >>]

Children(f) == { g \in 1..Len(tu) : tu[g].parent = f }

\* the DeclStmts of the body of f: its own, then one local class per nested function
FullBody(f) == tu[f].body \o [k \in 1..Cardinality(Children(f)) |-> LocalClassStmt]

RECURSIVE BodyLoop(_, _, _, _)
BodyLoop(f, s, loc, emitted) ==
    IF s > Len(FullBody(f))
    THEN IF tu[f].bodyOtherOK THEN [ok |-> TRUE, emitted |-> emitted]
         ELSE [ok |-> FALSE, emitted |-> Append(emitted, "err_constexpr_body_invalid_stmt")]
    ELSE LET r == CheckConstexprDeclStmt(FullBody(f)[s], StmtLoc(f, s), loc)
         IN  IF ~r.ok THEN [ok |-> FALSE, emitted |-> emitted \o r.emitted]
             ELSE BodyLoop(f, s + 1, r.Cxx1yLoc, emitted \o r.emitted)

\* Sema::CheckConstexprFunctionBody(func, func->getBody()): the declaration
\* statements of the body go through the declaration-statement check, the
\* other statements through the rest of the library's body rules
CheckConstexprFunctionBody(f) == BodyLoop(f, 1, InvalidLoc, << >>)

(***************************************************************************)
(* ConstexprFunctionASTVisitor::VisitFunctionDecl (src/main.cpp 168-219).  *)
(***************************************************************************)
\* the three early returns, without the isConstexpr one
ShouldProbeNoConstexprTest(st, f) == tu[f].inMain /\ ~tu[f].isMain

\* the three early returns, without the isMain one
ShouldProbeNoMainTest(st, f) == tu[f].inMain /\ ~st.isConstexpr[f]

\* none of the three early returns is taken
ShouldProbe(st, f) == tu[f].inMain /\ ~st.isConstexpr[f] /\ ~tu[f].isMain

\* the three checks, each reached only when the one before passed
ProbeChecks(st, f) ==
    LET d == CheckConstexprFunctionDecl(f)
        s1 == ReportAll(st, FuncLoc(f), d.emitted)
        b == CheckConstexprFunctionBody(f)
        s2 == ReportAll(s1, FuncLoc(f), b.emitted)
        p == CheckConstexprParameterTypes(f)
        s3 == ReportAll(s2, FuncLoc(f), p.emitted)
    IN  IF ~d.ok THEN [ok |-> FALSE, st |-> s1]
        ELSE IF ~b.ok THEN [ok |-> FALSE, st |-> s2]
        ELSE [ok |-> p.ok, st |-> s3]

\* the deleter of the unique_ptr `scope`
returnDiagnostics(st) == setSuppressAllDiagnostics(st, FALSE)

\* the probe with the flag reset by hand after the last check only
SpeculativeProbeManualReset(st, f) ==
    LET out == ProbeChecks(setSuppressAllDiagnostics(st, TRUE), f)
    IN  [ok |-> out.ok, st |-> IF out.ok THEN returnDiagnostics(out.st) ELSE out.st]

\* the block under setSuppressAllDiagnostics(true): `scope` is destroyed, and
\* the deleter run, on each return and at the closing brace
SpeculativeProbe(st, f) ==
    LET out == ProbeChecks(setSuppressAllDiagnostics(st, TRUE), f)
    IN  [ok |-> out.ok, st |-> returnDiagnostics(out.st)]

FunctionMsg == "function can be constexpr"
VariableMsg == "variable can be constexpr"

FunctionVisitor_VisitFunctionDecl(st, f) ==
    IF ~ShouldProbe(st, f) THEN st
    ELSE LET probe == SpeculativeProbe(st, f)
         IN  IF ~probe.ok THEN probe.st
             ELSE Report(setConstexpr(probe.st, f, TRUE),
                         Diagnostic(FuncLoc(f), "Warning", FunctionMsg,
                                    CreateInsertion(FuncLoc(f), "constexpr ")))

(***************************************************************************)
(* ConstexprVarDeclVisitor::VisitDeclStmt (src/main.cpp 237-283) on        *)
(* statement s of function f.                                              *)
(***************************************************************************)
IsVarDecl(d) == d.kind \in {"Var", "Decomposition"}

\* the visitor looking at the first declaration of any statement
VisitDeclStmtFirstDecl(st, f, s) ==
    LET var == FullBody(f)[s][1]
    IN  IF ~IsVarDecl(var) \/ var.constexpr \/ ~var.hasInit \/ ~var.initICE
           \/ var.valueDependent \/ ~var.evaluates \/ ~var.knownICE
        THEN st
        ELSE Report(st, Diagnostic(StmtLoc(f, s), "Warning", VariableMsg,
                                   CreateInsertion(StmtLoc(f, s), "constexpr ")))

\* the visitor without the evaluateValue test
VisitDeclStmtNoEvaluate(st, f, s) ==
    LET stmt == FullBody(f)[s]
        var == stmt[1]
    IN  IF Len(stmt) # 1 \/ ~IsVarDecl(var) \/ var.constexpr \/ ~var.hasInit
           \/ ~var.initICE \/ var.valueDependent \/ ~var.knownICE
        THEN st
        ELSE Report(st, Diagnostic(StmtLoc(f, s), "Warning", VariableMsg,
                                   CreateInsertion(StmtLoc(f, s), "constexpr ")))

VarDeclVisitor_VisitDeclStmt(st, f, s) ==
    LET stmt == FullBody(f)[s]
        var == stmt[1]
    IN  IF Len(stmt) # 1 THEN st                \* !stmt->isSingleDecl()
        ELSE IF ~IsVarDecl(var) THEN st         \* dyn_cast<VarDecl>
        ELSE IF var.constexpr THEN st           \* var->isConstexpr()
        ELSE IF ~var.hasInit THEN st            \* !var->getInit()
        ELSE IF ~var.initICE THEN st            \* !var->checkInitIsICE()
        ELSE IF var.valueDependent THEN st      \* Init->isValueDependent()
        ELSE IF ~var.evaluates THEN st          \* !var->evaluateValue()
        ELSE IF ~var.knownICE THEN st           \* !var->isInitICE()
        ELSE Report(st, Diagnostic(StmtLoc(f, s), "Warning", VariableMsg,
                                   CreateInsertion(StmtLoc(f, s), "constexpr ")))

(***************************************************************************)
(* ConstexprVarDeclFunctionASTVisitor::VisitFunctionDecl (292-306).        *)
(* vd.TraverseFunctionDecl(func) walks the whole subtree of func: its      *)
(* statements and those of every function nested in it.                    *)
(***************************************************************************)
RECURSIVE IsInside(_, _)
\* g is f or is nested, at any depth, in f
IsInside(g, f) == g = f \/ (tu[g].parent # 0 /\ IsInside(tu[g].parent, f))

RECURSIVE TraverseStmts(_, _, _)
TraverseStmts(st, g, s) ==
    IF s > Len(FullBody(g)) THEN st
    ELSE TraverseStmts(VarDeclVisitor_VisitDeclStmt(st, g, s), g, s + 1)

RECURSIVE TraverseFrom(_, _, _)
\* the functions are numbered in pre-order: the subtree of f, from g on
TraverseFrom(st, f, g) ==
    IF g > Len(tu) THEN st
    ELSE IF IsInside(g, f) THEN TraverseFrom(TraverseStmts(st, g, 1), f, g + 1)
    ELSE TraverseFrom(st, f, g + 1)

TraverseFunctionDecl(st, f) == TraverseFrom(st, f, f)

VarDeclFunctionVisitor_VisitFunctionDecl(st, f) ==
    IF ~tu[f].inMain THEN st
    ELSE IF st.isConstexpr[f] THEN st
    ELSE TraverseFunctionDecl(st, f)

(***************************************************************************)
(* Translation units.                                                      *)
(***************************************************************************)
\* where a function is and what it is: in the main file, in a header,
\* constexpr as written, the entry point
Gates ==
    { [inMain |-> TRUE,  constexpr |-> FALSE, isMain |-> FALSE],
      [inMain |-> FALSE, constexpr |-> FALSE, isMain |-> FALSE],
      [inMain |-> TRUE,  constexpr |-> TRUE,  isMain |-> FALSE],
      [inMain |-> FALSE, constexpr |-> TRUE,  isMain |-> FALSE],
      [inMain |-> TRUE,  constexpr |-> FALSE, isMain |-> TRUE] }

\* what the three checks find: all pass, or one of them fails
Profiles ==
    { [declOK |-> TRUE, bodyOtherOK |-> TRUE, params |-> << "literal" >>,
       body |-> << << VarOK >> >>],
      [declOK |-> FALSE, bodyOtherOK |-> TRUE, params |-> << "dependent" >>,
       body |-> << << VarOK >> >>],
      [declOK |-> TRUE, bodyOtherOK |-> TRUE, params |-> << >>,
       body |-> << << VarOK >>, << [VarOK EXCEPT !.isStaticLocal = TRUE] >> >>],
      [declOK |-> TRUE, bodyOtherOK |-> FALSE, params |-> << "literal" >>,
       body |-> << >>],
      [declOK |-> TRUE, bodyOtherOK |-> TRUE, params |-> << "dependent", "nonliteral" >>,
       body |-> << << VarOK, VarOK >> >>],
      [declOK |-> TRUE, bodyOtherOK |-> TRUE, params |-> << "dependent", "literal" >>,
       body |-> << << OfKind("Function"), OfKind("Typedef") >>,
                   << [VarOK EXCEPT !.valueDependent = TRUE] >> >>] }

FunctionDecls(n) ==
    { [parent |-> p] @@ g @@ c : p \in 0..(n - 1), g \in Gates, c \in Profiles }

RECURSIVE NestedIn(_, _, _)
\* g is f or is nested in f, in the candidate unit t
NestedIn(t, g, f) == g = f \/ (t[g].parent # 0 /\ NestedIn(t, t[g].parent, f))

\* the functions are numbered in pre-order; only a function at file scope is
\* the entry point, and there is one at most; a function nested in a function
\* of a header is in that header
WellFormed(t) ==
    /\ \A f \in 1..Len(t) :
          /\ t[f].parent < f
          /\ t[f].parent # 0 =>
                /\ NestedIn(t, f - 1, t[f].parent)
                /\ ~t[f].isMain
                /\ ~t[t[f].parent].inMain => ~t[f].inMain
    /\ Cardinality({ f \in 1..Len(t) : t[f].isMain }) <= 1

TranslationUnits == { t \in [1..NumFuncs -> FunctionDecls(NumFuncs)] : WellFormed(t) }

\* one function of the main file whose body is a statement of the pool, alone
\* or after a statement that qualifies
BodyUnits ==
    { << [parent |-> 0, inMain |-> TRUE, constexpr |-> FALSE, isMain |-> FALSE,
          declOK |-> d, bodyOtherOK |-> TRUE, params |-> << "literal" >>,
          body |-> b] >> :
        d \in BOOLEAN,
        b \in { << s >> : s \in DeclStmts } \cup { << << VarOK >>, s >> : s \in DeclStmts } }

\* ConstexprEverythingASTConsumer::HandleTranslationUnit: the function
\* visitor, then the variable visitor
HandleTranslationUnit == << "function", "variable" >>

\* the function visitor run twice over the same unit
FunctionVisitorTwice == << "function", "function" >>

InitRun(units, traversals) ==
    /\ tu \in units
    /\ isConstexpr = [f \in 1..Len(tu) |-> tu[f].constexpr]
    /\ diags = << >>
    /\ suppressed = FALSE
    /\ log = << >>
    /\ plan = traversals
    /\ pc = 1
    /\ cursor = 1
    /\ DS = << >>
    /\ Cxx1yLoc = InvalidLoc
    /\ ret = << >>

Init == InitRun(TranslationUnits, HandleTranslationUnit)
InitBody == InitRun(BodyUnits, HandleTranslationUnit)
InitTwice == InitRun(TranslationUnits, FunctionVisitorTwice)

\* CheckConstexprDeclStmt called on the second statement of a body, with no
\* extension location recorded yet or with the one of the first statement
InitDecl ==
    /\ tu = << >>
    /\ isConstexpr = << >>
    /\ diags = << >>
    /\ suppressed \in BOOLEAN
    /\ log = << >>
    /\ plan = << >>
    /\ pc = 1
    /\ cursor = 1
    /\ DS \in DeclStmts
    /\ Cxx1yLoc \in { InvalidLoc, StmtLoc(1, 1) }
    /\ ret = << >>

(***************************************************************************)
(* Actions.                                                                *)
(***************************************************************************)
Engine ==
    [isConstexpr |-> isConstexpr, diags |-> diags, suppressed |-> suppressed, log |-> log]

Install(st) ==
    /\ isConstexpr' = st.isConstexpr
    /\ diags' = st.diags
    /\ suppressed' = st.suppressed
    /\ log' = st.log

\* RecursiveASTVisitor::TraverseDecl: on to the next FunctionDecl, and to the
\* next traversal after the last one
Advance ==
    IF cursor < Len(tu)
    THEN cursor' = cursor + 1 /\ pc' = pc
    ELSE cursor' = 1 /\ pc' = pc + 1

Running(traversal) == pc <= Len(plan) /\ plan[pc] = traversal

Done == pc > Len(plan)

\* functionVisitor visits the next function
FunctionVisit ==
    /\ Running("function")
    /\ Install(FunctionVisitor_VisitFunctionDecl(Engine, cursor))
    /\ Advance
    /\ UNCHANGED <<tu, plan, DS, Cxx1yLoc, ret>>

\* varDeclVisitor visits the next function
VariableVisit ==
    /\ Running("variable")
    /\ Install(VarDeclFunctionVisitor_VisitFunctionDecl(Engine, cursor))
    /\ Advance
    /\ UNCHANGED <<tu, plan, DS, Cxx1yLoc, ret>>

\* the location of the DeclStmt the declaration check is called on
DSLoc == StmtLoc(1, 2)

\* one call of CheckConstexprDeclStmt(SemaRef, Dcl, DS, Cxx1yLoc)
CallCheckConstexprDeclStmt ==
    /\ DS # << >>
    /\ ret = << >>
    /\ LET r == CheckConstexprDeclStmt(DS, DSLoc, Cxx1yLoc)
       IN  /\ ret' = << [ok |-> r.ok, examined |-> r.examined, before |-> Cxx1yLoc] >>
           /\ Cxx1yLoc' = r.Cxx1yLoc
           /\ Install(ReportAll(Engine, DSLoc, r.emitted))
    /\ UNCHANGED <<tu, plan, pc, cursor, DS>>

Next == FunctionVisit \/ VariableVisit
NextTwice == FunctionVisit
NextDecl == CallCheckConstexprDeclStmt

Spec == Init /\ [][Next]_vars
SpecBody == InitBody /\ [][Next]_vars
SpecTwice == InitTwice /\ [][NextTwice]_vars
SpecDecl == InitDecl /\ [][NextDecl]_vars

(***************************************************************************)
(* Vocabulary of the properties, stated on the input and on what the run   *)
(* left behind, not through the operators above.                           *)
(***************************************************************************)
Funcs == 1..Len(tu)

Stmts(f) == 1..Len(FullBody(f))

\* how many accepted diagnostics carry this message at this location
CountDiags(loc, msg) ==
    Cardinality({ i \in DOMAIN diags : diags[i].loc = loc /\ diags[i].msg = msg })

DiagsAt(loc) == { i \in DOMAIN diags : diags[i].loc = loc }

\* the suggestion the tool attaches to a location
IsSuggestion(d, loc, msg) ==
    /\ d.loc = loc
    /\ d.severity = "Warning"
    /\ d.msg = msg
    /\ d.fixit = << [at |-> loc, text |-> "constexpr "] >>

\* the running traversal has been over function f, or a traversal is complete
Visited(f) == pc > 1 \/ cursor > f

FunctionPassOver == pc > 1

ListedKinds ==
    {"StaticAssert", "Using", "UsingShadow", "UsingDirective",
     "UnresolvedUsingTypename", "UnresolvedUsingValue", "Typedef", "TypeAlias",
     "Enum", "CXXRecord", "EnumConstant", "IndirectField", "ParmVar", "Var",
     "Decomposition", "NamespaceAlias", "Function"}

IsStaticLocalDef(d) == d.kind \in {"Var", "Decomposition"} /\ d.isDef /\ d.isStaticLocal

\* the per-kind policy: the declarations that make the statement check fail
IsHardFailure(d) ==
    \/ d.kind \in {"Typedef", "TypeAlias"} /\ d.variablyModified
    \/ /\ d.kind \in {"Var", "Decomposition"}
       /\ d.isDef
       /\ \/ d.isStaticLocal
          \/ ~d.typeDependent /\ ~d.literal
          \/ ~d.hasInit /\ ~d.typeDependent /\ ~d.forRange
    \/ d.kind \notin ListedKinds

HardFailures(decls) == { i \in DOMAIN decls : IsHardFailure(decls[i]) }

Min(S) == CHOOSE x \in S : \A y \in S : x <= y

\* the three checks of the function visitor all pass for f
ChecksPass(f) ==
    /\ tu[f].declOK
    /\ tu[f].bodyOtherOK
    /\ \A s \in Stmts(f) : HardFailures(FullBody(f)[s]) = {}
    /\ \A i \in DOMAIN tu[f].params : tu[f].params[i] \in {"literal", "dependent"}

\* f is probed by the function visitor: in the main file, not constexpr as
\* written, not the entry point
Candidate(f) == tu[f].inMain /\ ~tu[f].constexpr /\ ~tu[f].isMain

\* position in the log of the first event of this kind for this location
FirstEvent(op, loc) ==
    Min({ i \in DOMAIN log : log[i].op = op /\ log[i].loc = loc } \cup {Len(log) + 1})

(***************************************************************************)
(* C1.  After the function pass, no function whose constexpr flag is true  *)
(* (at any nesting depth) has a "variable can be constexpr" diagnostic on  *)
(* a declaration statement of its body.                                    *)
(***************************************************************************)
C1_NoVariableDiagInConstexprFunction ==
    \A f \in Funcs :
        FunctionPassOver /\ isConstexpr[f] =>
            \A s \in Stmts(f) : CountDiags(StmtLoc(f, s), VariableMsg) = 0

(***************************************************************************)
(* C2.  After every visit the suppress-all flag is off; in the history     *)
(* every switch-on is followed by a switch-off with nothing between them   *)
(* but dropped diagnostics; and the "function can be constexpr" warning is *)
(* never reported while the flag is on (it is never dropped).              *)
(***************************************************************************)
C2_SuppressionScoped ==
    /\ suppressed = FALSE
    /\ \A i \in DOMAIN log :
          log[i].op = "suppress" /\ log[i].on =>
              \E j \in DOMAIN log :
                  /\ j > i
                  /\ log[j].op = "suppress" /\ ~log[j].on
                  /\ \A k \in (i + 1)..(j - 1) : log[k].op = "drop"
    /\ \A i \in DOMAIN log : ~(log[i].op = "drop" /\ log[i].msg = FunctionMsg)
    /\ \A f \in Funcs :
          isConstexpr[f] /\ ~tu[f].constexpr => CountDiags(FuncLoc(f), FunctionMsg) >= 1

\* a run in which a probe failed and a later probe succeeded
C2_Witness ==
    /\ Done
    /\ \E f, g \in Funcs :
          /\ f < g
          /\ Candidate(f) /\ ~ChecksPass(f) /\ ~isConstexpr[f]
          /\ Candidate(g) /\ ChecksPass(g) /\ CountDiags(FuncLoc(g), FunctionMsg) = 1
    /\ suppressed = FALSE

(***************************************************************************)
(* C3.  A visited candidate function whose three checks pass has its flag  *)
(* set and exactly one "function can be constexpr" warning, with the       *)
(* fix-it inserting "constexpr " at its start, reported after the flag was *)
(* set; one with a failing check keeps its flag false and has no           *)
(* diagnostic at all.                                                      *)
(***************************************************************************)
C3_EligibleMarkedAndDiagnosed ==
    \A f \in Funcs :
        Visited(f) /\ Candidate(f) =>
            IF ChecksPass(f)
            THEN /\ isConstexpr[f]
                 /\ Cardinality(DiagsAt(FuncLoc(f))) = 1
                 /\ \A i \in DiagsAt(FuncLoc(f)) :
                       IsSuggestion(diags[i], FuncLoc(f), FunctionMsg)
                 /\ FirstEvent("setConstexpr", FuncLoc(f)) < FirstEvent("report", FuncLoc(f))
            ELSE /\ ~isConstexpr[f]
                 /\ DiagsAt(FuncLoc(f)) = {}

\* both cases in one run: a candidate that passes and one that fails on its
\* parameters only
C3_Witness ==
    /\ Done
    /\ \E f, g \in Funcs :
          /\ Candidate(f) /\ ChecksPass(f) /\ isConstexpr[f]
          /\ Candidate(g) /\ ~isConstexpr[g]
          /\ tu[g].declOK /\ tu[g].bodyOtherOK
          /\ \E i \in DOMAIN tu[g].params : tu[g].params[i] = "nonliteral"

(***************************************************************************)
(* C4.  A function that is constexpr as written, or the entry point, keeps *)
(* its flag and gets no "function can be constexpr" diagnostic, whatever   *)
(* the checks would return.                                                *)
(***************************************************************************)
C4_ConstexprAndMainUntouched ==
    \A f \in Funcs :
        tu[f].constexpr \/ tu[f].isMain =>
            /\ isConstexpr[f] = tu[f].constexpr
            /\ DiagsAt(FuncLoc(f)) = {}

\* an entry point and a constexpr function of the main file, both of which
\* the checks would accept, after the run
C4_Witness ==
    /\ Done
    /\ \E f, g \in Funcs :
          /\ tu[f].isMain /\ tu[f].inMain /\ ChecksPass(f) /\ ~isConstexpr[f]
          /\ tu[g].constexpr /\ tu[g].inMain /\ ChecksPass(g)

(***************************************************************************)
(* C5.  A function that is not in the main file never has its flag changed *)
(* and gets neither a "function can be constexpr" diagnostic nor a         *)
(* "variable can be constexpr" diagnostic on a statement of its body.      *)
(***************************************************************************)
C5_HeaderFunctionsUntouched ==
    \A f \in Funcs :
        ~tu[f].inMain =>
            /\ isConstexpr[f] = tu[f].constexpr
            /\ DiagsAt(FuncLoc(f)) = {}
            /\ \A s \in Stmts(f) : DiagsAt(StmtLoc(f, s)) = {}

(***************************************************************************)
(* C6.  A visited function whose body holds the definition of a static (or *)
(* thread) local variable is not marked and has no diagnostic, whatever    *)
(* the rest of the body and the parameters are.                            *)
(***************************************************************************)
HasStaticLocal(f) ==
    \E s \in DOMAIN tu[f].body :
        \E i \in DOMAIN tu[f].body[s] : IsStaticLocalDef(tu[f].body[s][i])

C6_StaticLocalFailsFunction ==
    \A f \in Funcs :
        Visited(f) /\ HasStaticLocal(f) =>
            /\ isConstexpr[f] = tu[f].constexpr
            /\ DiagsAt(FuncLoc(f)) = {}

\* the static local is the only obstacle: every other declaration of the
\* body, the declaration check and the parameters qualify
C6_Witness ==
    /\ Done
    /\ \E f \in Funcs :
          /\ Candidate(f) /\ tu[f].declOK /\ tu[f].bodyOtherOK
          /\ \A i \in DOMAIN tu[f].params : tu[f].params[i] = "literal"
          /\ HasStaticLocal(f)
          /\ Len(tu[f].body) = 2 /\ Len(tu[f].body[2]) = 2
          /\ \A s \in DOMAIN tu[f].body : \A i \in DOMAIN tu[f].body[s] :
                LET d == tu[f].body[s][i]
                IN  IsHardFailure(d) => d = [VarOK EXCEPT !.isStaticLocal = TRUE]
          /\ ~isConstexpr[f]

(***************************************************************************)
(* C7.  While the function visitor runs for the second time over the unit  *)
(* the first run left, no diagnostic is added and no flag changes.         *)
(***************************************************************************)
C7_SecondRunChangesNothing ==
    [][pc = 2 => diags' = diags /\ isConstexpr' = isConstexpr]_vars

\* after the second run: a function the first run marked and one it refused
C7_Witness ==
    /\ Done
    /\ plan = FunctionVisitorTwice
    /\ \E f, g \in Funcs :
          /\ isConstexpr[f] /\ ~tu[f].constexpr
          /\ Candidate(g) /\ ~isConstexpr[g]
    /\ Len(diags) = 1

(***************************************************************************)
(* C8.  A declaration statement with more than one declaration never has a *)
(* "variable can be constexpr" diagnostic.                                 *)
(***************************************************************************)
C8_MultiDeclaratorSkipped ==
    \A f \in Funcs : \A s \in Stmts(f) :
        Len(FullBody(f)[s]) > 1 => DiagsAt(StmtLoc(f, s)) = {}

\* the variable visitor went through a function with `int a = 1, b = 2;`
C8_Witness ==
    /\ Done
    /\ \E f \in Funcs :
          /\ tu[f].inMain /\ ~isConstexpr[f]
          /\ \E s \in Stmts(f) : FullBody(f)[s] = << VarOK, VarOK >>

(***************************************************************************)
(* C9.  After the run, for a statement with one declaration, a variable    *)
(* not constexpr, inside a function the variable visitor went into.        *)
(***************************************************************************)
\* the variable visitor went into f (flags do not change after the function pass)
Descended(f) == tu[f].inMain /\ ~isConstexpr[f]

\* statement s of g is reached by a descent
Reached(g) == \E f \in Funcs : Descended(f) /\ IsInside(g, f)

SingleVar(g, s) ==
    /\ Len(FullBody(g)[s]) = 1
    /\ IsVarDecl(FullBody(g)[s][1])
    /\ ~FullBody(g)[s][1].constexpr

\* the claim as stated: initializer, pre-check, evaluation, classification
C9_AsStated ==
    Done =>
        \A g \in Funcs : \A s \in Stmts(g) :
            Reached(g) /\ SingleVar(g, s) =>
                LET var == FullBody(g)[s][1]
                IN  (var.hasInit /\ var.initICE /\ var.evaluates /\ var.knownICE)
                        <=> CountDiags(StmtLoc(g, s), VariableMsg) >= 1

\* C9, amended: the warning is emitted exactly when, in addition, the
\* initializer is not value-dependent; every diagnostic at the statement is
\* the suggestion with its fix-it; the declarations are never changed.
C9_VariableSuggestion ==
    /\ [](Done =>
            \A g \in Funcs : \A s \in Stmts(g) :
                Reached(g) /\ SingleVar(g, s) =>
                    LET var == FullBody(g)[s][1]
                    IN  /\ (var.hasInit /\ var.initICE /\ ~var.valueDependent
                                /\ var.evaluates /\ var.knownICE)
                              <=> CountDiags(StmtLoc(g, s), VariableMsg) >= 1
                        /\ \A i \in DiagsAt(StmtLoc(g, s)) :
                              IsSuggestion(diags[i], StmtLoc(g, s), VariableMsg))
    /\ [][tu' = tu]_vars

\* a qualifying variable got its warning, and one whose initializer cannot
\* be evaluated got none, in functions the visitor went into
C9_Witness ==
    /\ Done
    /\ \E g \in Funcs :
          /\ Descended(g)
          /\ FullBody(g)[1] = << VarOK >>
          /\ CountDiags(StmtLoc(g, 1), VariableMsg) = 1
          /\ Len(tu[g].body) = 2
          /\ FullBody(g)[2] = << [VarOK EXCEPT !.evaluates = FALSE] >>
          /\ DiagsAt(StmtLoc(g, 2)) = {}

(***************************************************************************)
(* C10.  CheckConstexprDeclStmt returns false at the first declaration     *)
(* that is a hard failure, having examined none after it, and true when    *)
(* there is none; the extension location is the one passed in if that was  *)
(* valid, else the statement's begin if a namespace alias or a function    *)
(* declaration was examined, else still invalid.                           *)
(***************************************************************************)
C10_DeclStmtCheck ==
    ret # << >> =>
        LET r == ret[1]
            fails == HardFailures(DS)
            last == IF fails = {} THEN Len(DS) ELSE Min(fails)
            extension == \E i \in 1..last : DS[i].kind \in {"NamespaceAlias", "Function"}
        IN  /\ r.ok = (fails = {})
            /\ r.examined = last
            /\ Cxx1yLoc = IF r.before # InvalidLoc THEN r.before
                          ELSE IF extension THEN DSLoc
                          ELSE InvalidLoc

\* a statement that fails at its first declaration, a later one unexamined
C10_Witness ==
    /\ ret # << >>
    /\ Len(DS) >= 2
    /\ IsHardFailure(DS[1])
    /\ DS[2].kind = "Function"
    /\ ~ret[1].ok
    /\ ret[1].examined = 1
    /\ Cxx1yLoc = InvalidLoc

====
